---- MODULE Spec2Model ----
(***************************************************************************)
(* Fuelprices_DK-2: the registry of fuel companies (FuelPrices), the       *)
(* company classes (FuelCompany and its nine subclasses) and their price   *)
(* scraping strategies, modelled from                                      *)
(* custom_components/fuelprices_dk/fuelprices_dk_api.py.                   *)
(*                                                                         *)
(* Python values are modelled as follows.                                  *)
(*   str that the code takes apart  a sequence of tokens (characters for   *)
(*                        company keys; words, digits and decorations for  *)
(*                        cell texts)                                      *)
(*   dict (a product record)        a function from field names to values; *)
(*                        a field that is absent is not in its DOMAIN      *)
(*   None or a list       [isNone, val]                                    *)
(*   an exception         the name of its class, "none" when none is raised*)
(*   float price          the price in 1/100 kr (an integer)               *)
(***************************************************************************)
EXTENDS Integers, Sequences, FiniteSets, TLC

VARIABLES
    products,    \* class -> kind -> product record: the class-level _products dicts
    companies,   \* registry -> sequence of sources: FuelPrices._companies, in insertion order
    lastLoad,    \* the last load_companies call: its arguments, warnings and exception
    status,      \* of refresh(): "running", or how the last call ended ("returned",
                 \* "raised"), or "idle" when no refresh() is the last call made
    cur,         \* the registry whose refresh() is running or ran last
    pos,         \* the index in companies[cur] of the source refresh() is at
    calls,       \* the refresh_prices() calls of this refresh() pass, with how each ended
    warnings,    \* the names refresh() logged a warning for in this pass
    now,         \* the clock datetime.now(DK_TZ) reads, in ticks
    firstRows,   \* of the page the last refresh_prices() call scanned: display name ->
                 \* the price cell of the first row with that name (history)
    world        \* what the outside world answered the last refresh_prices() call of
                 \* this pass, <<>> before the first (history)

vars == <<products, companies, lastLoad, status, cur, pos, calls, warnings, now, firstRows,
          world>>

(***************************************************************************)
(* Bounds of the model.                                                    *)
(***************************************************************************)
MaxKeys == 2      \* longest list of company keys handed to load_companies
MaxClock == 2     \* refresh() passes (one clock tick each) in a behaviour
MaxRows == 2      \* rows of a scanned page
MaxRecords == 2   \* records of a Uno-X document

(***************************************************************************)
(* Helpers on sequences.                                                   *)
(***************************************************************************)
Range(s) == { s[i] : i \in DOMAIN s }

SeqsUpTo(S, n) == UNION { [1..m -> S] : m \in 0..n }

RECURSIVE RemoveAll(_, _)
RemoveAll(s, t) ==
    IF s = <<>> THEN <<>>
    ELSE IF Head(s) = t THEN RemoveAll(Tail(s), t)
    ELSE <<Head(s)>> \o RemoveAll(Tail(s), t)

RECURSIVE LStrip(_, _)
LStrip(s, ws) ==
    IF s # <<>> /\ Head(s) \in ws THEN LStrip(Tail(s), ws) ELSE s

RECURSIVE RStrip(_, _)
RStrip(s, ws) ==
    IF s # <<>> /\ s[Len(s)] \in ws THEN RStrip(SubSeq(s, 1, Len(s) - 1), ws) ELSE s

Whitespace == {" "}

Strip(s) == RStrip(LStrip(s, Whitespace), Whitespace)

PyNone == [isNone |-> TRUE, val |-> <<>>]

PyList(s) == [isNone |-> FALSE, val |-> s]

(***************************************************************************)
(* Product kinds and the built-in catalogs.                                *)
(***************************************************************************)
DEFAULT_PRICE_TYPE == "pump"
DIESEL == "diesel"
DIESEL_PLUS == "diesel+"
CHARGE == "lader"
QUICKCHARGE == "lynlader"
OCTANE_95 == "oktan 95"
OCTANE_95_PLUS == "oktan 95+"
OCTANE_100 == "oktan 100"

\* Class names, as the token sequences factory() builds: the name of FuelCompany
\* followed by the characters of the capitalized key.
FuelCompany == <<"FuelCompany">>
FuelCompanyOk == <<"FuelCompany", "O", "k">>
FuelCompanyShell == <<"FuelCompany", "S", "h", "e", "l", "l">>
FuelCompanyCirclek == <<"FuelCompany", "C", "i", "r", "c", "l", "e", "k">>
FuelCompanyF24 == <<"FuelCompany", "F", "2", "4">>
FuelCompanyQ8 == <<"FuelCompany", "Q", "8">>
FuelCompanyIngo == <<"FuelCompany", "I", "n", "g", "o">>
FuelCompanyOil == <<"FuelCompany", "O", "i", "l">>
FuelCompanyGoon == <<"FuelCompany", "G", "o", "o", "n">>
FuelCompanyUnox == <<"FuelCompany", "U", "n", "o", "x">>

\* The subclasses: the classes that define _products.
Classes ==
    { FuelCompanyOk, FuelCompanyShell, FuelCompanyCirclek, FuelCompanyF24,
      FuelCompanyQ8, FuelCompanyIngo, FuelCompanyOil, FuelCompanyGoon,
      FuelCompanyUnox }

\* The names of the module's globals() a class_name can be equal to.
Globals == Classes \cup { FuelCompany, <<"FuelPrices">>, <<"TlsAdapter">> }

\* Each class's _products literal: its items in the order written.
ClassProducts(cls) ==
    CASE cls = FuelCompanyOk ->
           << <<OCTANE_95, [name |-> "Blyfri 95"]>>,
              <<OCTANE_100, [name |-> "Oktan 100"]>>,
              <<DIESEL, [name |-> "Diesel"]>> >>
      [] cls = FuelCompanyShell ->
           << <<OCTANE_95, [name |-> "Shell FuelSave 95 oktan"]>>,
              <<OCTANE_100, [name |-> "Shell V-Power 100 oktan"]>>,
              <<DIESEL, [name |-> "Shell FuelSave Diesel"]>>,
              <<DIESEL_PLUS, [name |-> "Shell V-Power Diesel"]>>,
              <<QUICKCHARGE, [name |-> "El/kWh", type |-> "electricity"]>> >>
      [] cls = FuelCompanyCirclek ->
           << <<OCTANE_95, [name |-> "miles95"]>>,
              <<OCTANE_95_PLUS, [name |-> "miles+95"]>>,
              <<DIESEL, [name |-> "miles Diesel"]>>,
              <<DIESEL_PLUS, [name |-> "miles+ Diesel"]>>,
              <<QUICKCHARGE, [name |-> "El Lynlader", type |-> "electricity"]>> >>
      [] cls = FuelCompanyF24 ->
           << <<OCTANE_95, [name |-> "GoEasy 95 E10", ProductCode |-> 22253]>>,
              <<OCTANE_95_PLUS, [name |-> "GoEasy 95 Extra E5", ProductCode |-> 22603]>>,
              <<DIESEL, [name |-> "GoEasy Diesel", ProductCode |-> 24453]>>,
              <<DIESEL_PLUS, [name |-> "GoEasy Diesel Extra", ProductCode |-> 24338]>>,
              <<CHARGE, [name |-> "Hurtiglader", type |-> "electricity"]>> >>
      [] cls = FuelCompanyQ8 ->
           << <<OCTANE_95, [name |-> "GoEasy 95 E10", ProductCode |-> 22251]>>,
              <<OCTANE_95_PLUS, [name |-> "GoEasy 95 Extra E5", ProductCode |-> 22601]>>,
              <<DIESEL, [name |-> "GoEasy Diesel", ProductCode |-> 24451]>>,
              <<DIESEL_PLUS, [name |-> "GoEasy Diesel Extra", ProductCode |-> 24337]>>,
              <<CHARGE, [name |-> "Hurtiglader", type |-> "electricity"]>>,
              <<QUICKCHARGE, [name |-> "Lynlader", type |-> "electricity"]>> >>
      [] cls = FuelCompanyIngo ->
           << <<OCTANE_95, [name |-> "Benzin 95"]>>,
              <<OCTANE_95_PLUS, [name |-> "UPGRADE 95"]>>,
              <<DIESEL, [name |-> "Diesel"]>> >>
      [] cls = FuelCompanyOil ->
           << <<OCTANE_95, [name |-> "95 E10"]>>,
              <<OCTANE_95_PLUS, [name |-> "PREMIUM 98"]>>,
              <<DIESEL, [name |-> "Diesel"]>> >>
      [] cls = FuelCompanyGoon ->
           << <<OCTANE_95, [name |-> "Blyfri 95",
                            ocr_crop |-> <<"58", "232", "134", "46">>]>>,
              <<DIESEL, [name |-> "Transportdiesel",
                         ocr_crop |-> <<"58", "289", "134", "46">>]>> >>
      [] cls = FuelCompanyUnox ->
           << <<OCTANE_95, [name |-> "Blyfri 95 E10"]>>,
              <<OCTANE_95_PLUS, [name |-> "Blyfri 98 E5"]>>,
              <<OCTANE_100, [name |-> "Blyfri 100 E5"]>>,
              <<DIESEL, [name |-> "Diesel"]>> >>

\* The kinds of a class's built-in catalog, in order, and as a set.
CatalogOrder(cls) == [i \in DOMAIN ClassProducts(cls) |-> ClassProducts(cls)[i][1]]

CatalogKinds(cls) == Range(CatalogOrder(cls))

\* The record a class's _products literal gives a kind.
CatalogRecord(cls, kind) ==
    LET i == CHOOSE j \in DOMAIN ClassProducts(cls) : ClassProducts(cls)[j][1] = kind
    IN ClassProducts(cls)[i][2]

\* The class-level dicts as the module's import leaves them.
InitialProducts ==
    [cls \in Classes |-> [kind \in CatalogKinds(cls) |-> CatalogRecord(cls, kind)]]

(***************************************************************************)
(* FuelPrices.company_keys, and str.capitalize() on the characters a key   *)
(* is made of.                                                             *)
(***************************************************************************)
company_keys ==
    << <<"c", "i", "r", "c", "l", "e", "k">>,
       <<"f", "2", "4">>,
       <<"g", "o", "o", "n">>,
       <<"i", "n", "g", "o">>,
       <<"o", "i", "l">>,
       <<"o", "k">>,
       <<"q", "8">>,
       <<"s", "h", "e", "l", "l">>,
       <<"u", "n", "o", "x">> >>

Lowers ==
    <<"a", "b", "c", "d", "e", "f", "g", "h", "i", "j", "k", "l", "m",
      "n", "o", "p", "q", "r", "s", "t", "u", "v", "w", "x", "y", "z">>

Uppers ==
    <<"A", "B", "C", "D", "E", "F", "G", "H", "I", "J", "K", "L", "M",
      "N", "O", "P", "Q", "R", "S", "T", "U", "V", "W", "X", "Y", "Z">>

ToUpper(c) ==
    IF \E i \in DOMAIN Lowers : Lowers[i] = c
    THEN Uppers[CHOOSE i \in DOMAIN Lowers : Lowers[i] = c]
    ELSE c

ToLower(c) ==
    IF \E i \in DOMAIN Uppers : Uppers[i] = c
    THEN Lowers[CHOOSE i \in DOMAIN Uppers : Uppers[i] = c]
    ELSE c

\* str.capitalize(): the first character upper-cased, the others lower-cased.
Capitalize(s) ==
    [i \in DOMAIN s |-> IF i = 1 THEN ToUpper(s[i]) ELSE ToLower(s[i])]

(***************************************************************************)
(* FuelCompany.__init__ and FuelCompany.factory.                           *)
(***************************************************************************)
\* __init__ with the subscription filter left out.
FilterProductsNoFilter(cls, subscribe_products) == CatalogOrder(cls)

\* The keys of self._products after __init__: the class's catalog, cut to the
\* kinds in subscribe_products when that is not None.
FilterProducts(cls, subscribe_products) ==
    IF subscribe_products.isNone
    THEN CatalogOrder(cls)
    ELSE SelectSeq(CatalogOrder(cls), LAMBDA k : k \in Range(subscribe_products.val))

\* products_name_key_idx: display name -> kind, over the kinds kept.
NameKeyIdx(cls, kinds) ==
    [n \in { CatalogRecord(cls, k).name : k \in Range(kinds) } |->
        CHOOSE k \in Range(kinds) : CatalogRecord(cls, k).name = n]

\* The instance __init__ builds, or the AttributeError of reading _products on
\* the base class, which declares it without a value.
NewCompany(cls, company_key, subscribe_products) ==
    LET built(kinds) ==
            [exc |-> "none",
             company |-> [key |-> company_key,
                          cls |-> cls,
                          kinds |-> kinds,
                          idx |-> NameKeyIdx(cls, kinds),
                          price_type |-> DEFAULT_PRICE_TYPE,
                          subscribed |-> subscribe_products]]
    IN IF cls \notin Classes
       THEN [exc |-> "AttributeError", company |-> <<>>]
       ELSE built(FilterProducts(cls, subscribe_products))

\* factory(): the class named FuelCompany + key.capitalize() if the module has
\* one, else a warning and None.
Factory(company_key, subscribe_products) ==
    LET made(c) == [exc |-> c.exc, found |-> c.exc = "none", warned |-> FALSE,
                    company |-> c.company]
        lookup(class_name) ==
            IF class_name \in Globals
            THEN made(NewCompany(class_name, company_key, subscribe_products))
            ELSE [exc |-> "none", found |-> FALSE, warned |-> TRUE, company |-> <<>>]
    IN lookup(FuelCompany \o Capitalize(company_key))

(***************************************************************************)
(* FuelPrices.load_companies.                                              *)
(***************************************************************************)
\* self._companies[k] = c: a new key goes last, a known key keeps its place.
DictSet(reg, k, c) ==
    IF \E i \in DOMAIN reg : reg[i].key = k
    THEN [i \in DOMAIN reg |-> IF reg[i].key = k THEN c ELSE reg[i]]
    ELSE Append(reg, c)

RECURSIVE LoadFrom(_, _, _, _)
LoadFrom(reg, keys, subscribe_products, warned) ==
    LET next(c) ==
            IF c.exc # "none"
            THEN [reg |-> reg, warned |-> warned, exc |-> c.exc]
            ELSE LoadFrom(IF c.found THEN DictSet(reg, Head(keys), c.company) ELSE reg,
                          Tail(keys), subscribe_products,
                          IF c.warned THEN Append(warned, Head(keys)) ELSE warned)
    IN IF keys = <<>>
       THEN [reg |-> reg, warned |-> warned, exc |-> "none"]
       ELSE next(Factory(Head(keys), subscribe_products))

\* `if not subscribe_companies`: None and the empty list both select company_keys.
LoadCompaniesResult(reg, subscribe_companies, subscribe_products) ==
    LoadFrom(reg,
             IF subscribe_companies.isNone \/ subscribe_companies.val = <<>>
             THEN company_keys ELSE subscribe_companies.val,
             subscribe_products, <<>>)

Registries == {"r1", "r2"}

NoLoad ==
    [reg |-> "none", subscribe_companies |-> PyNone, subscribe_products |-> PyNone,
     warned |-> <<>>, exc |-> "none"]

\* load_companies(subscribe_companies, subscribe_products) on registry r.
LoadCompanies(r, subscribe_companies, subscribe_products) ==
    /\ status # "running"
    /\ \E res \in {LoadCompaniesResult(companies[r], subscribe_companies, subscribe_products)} :
          /\ companies' = [companies EXCEPT ![r] = res.reg]
          /\ lastLoad' = [reg |-> r,
                          subscribe_companies |-> subscribe_companies,
                          subscribe_products |-> subscribe_products,
                          warned |-> res.warned,
                          exc |-> res.exc]
    /\ status' = "idle"
    /\ pos' = 1
    /\ calls' = <<>>
    /\ warnings' = <<>>
    /\ firstRows' = <<>>
    /\ world' = <<>>
    /\ UNCHANGED <<products, cur, now>>

(***************************************************************************)
(* Cell texts.  A text is a sequence of tokens: a display name or another  *)
(* word, a decoration the cleaning functions remove, a digit, a separator  *)
(* or a blank.                                                             *)
(***************************************************************************)
Digits == <<"0", "1", "2", "3", "4", "5", "6", "7", "8", "9">>

IsDigit(c) == \E i \in DOMAIN Digits : Digits[i] = c

DigitVal(c) == (CHOOSE i \in DOMAIN Digits : Digits[i] = c) - 1

\* str.replace(old, new) for a token.
Replace(s, old, new) == [i \in DOMAIN s |-> IF s[i] = old THEN new ELSE s[i]]

\* The last step of _clean_product_name: product_name[-1] of an empty string is
\* an IndexError; one trailing period is dropped.
DropPeriod(stripped) ==
    IF stripped = <<>>
    THEN [exc |-> "IndexError", name |-> <<>>]
    ELSE IF stripped[Len(stripped)] = "."
    THEN [exc |-> "none", name |-> SubSeq(stripped, 1, Len(stripped) - 1)]
    ELSE [exc |-> "none", name |-> stripped]

\* _clean_product_name: [exc, name].
CleanProductName(product_name) ==
    DropPeriod(Strip(RemoveAll(product_name, "Beskrivelse: ")))

\* Whether a cleaned name is a key of products_name_key_idx: the text is that
\* one display name and nothing else.
InIdx(idx, name) == Len(name) = 1 /\ name[1] \in DOMAIN idx

RECURSIVE DigitsValue(_)
DigitsValue(s) ==
    IF s = <<>> THEN 0 ELSE 10 * DigitsValue(SubSeq(s, 1, Len(s) - 1)) + DigitVal(s[Len(s)])

\* float() accepts digits with at most one "." among them.
IsDecimal(s) ==
    /\ \A i \in DOMAIN s : IsDigit(s[i]) \/ s[i] = "."
    /\ Cardinality({ i \in DOMAIN s : s[i] = "." }) <= 1
    /\ \E i \in DOMAIN s : IsDigit(s[i])

\* f"{float(price):.2f}" read back by float(): the value in 1/100, rounded at
\* the third fraction digit (no text of the model has a third digit of 5, where
\* the binary value decides).
Hundredths(s) ==
    LET dot == IF \E i \in DOMAIN s : s[i] = "."
               THEN CHOOSE i \in DOMAIN s : s[i] = "." ELSE Len(s) + 1
        whole == SubSeq(s, 1, dot - 1)
        frac == SubSeq(s, dot + 1, Len(s))
        d(i) == IF i <= Len(frac) THEN DigitVal(frac[i]) ELSE 0
    IN DigitsValue(whole) * 100 + d(1) * 10 + d(2) + (IF d(3) >= 5 THEN 1 ELSE 0)

\* float(price) and the two-decimal format: ValueError when the text is not a
\* decimal number.
FormatFloat(price) ==
    IF IsDecimal(price)
    THEN [exc |-> "none", price |-> Hundredths(price)]
    ELSE [exc |-> "ValueError", price |-> 0]

\* _clean_price: [exc, price].
CleanPrice(price) ==
    FormatFloat(
        Strip(Replace(RemoveAll(RemoveAll(RemoveAll(price, "Pris inkl. moms: "), " kr."),
                                " kr/kWh"),
                      ",", ".")))

(***************************************************************************)
(* Product records and _set_price.                                         *)
(***************************************************************************)
\* record[field] = value on a dict.
SetField(record, field, value) ==
    [f \in DOMAIN record \cup {field} |-> IF f = field THEN value ELSE record[f]]

\* The assignments of _set_price with last_update left out.
AssignPriceOnly(company, recs, product_key, p, clock) ==
    IF p.exc # "none" THEN [recs |-> recs, exc |-> p.exc]
    ELSE IF product_key \notin Range(company.kinds)
    THEN [recs |-> recs, exc |-> "KeyError"]
    ELSE [recs |-> [recs EXCEPT ![product_key] = SetField(@, "price", p.price)],
          exc |-> "none"]

\* The assignments of _set_price, given the cleaned price p: [recs, exc].  The
\* right hand side is evaluated first (ValueError), then
\* self._products[product_key] (KeyError); price and last_update are then set.
AssignPrice(company, recs, product_key, p, clock) ==
    IF p.exc # "none" THEN [recs |-> recs, exc |-> p.exc]
    ELSE IF product_key \notin Range(company.kinds)
    THEN [recs |-> recs, exc |-> "KeyError"]
    ELSE [recs |-> [recs EXCEPT ![product_key] =
                       SetField(SetField(@, "price", p.price), "last_update", clock)],
          exc |-> "none"]

\* _set_price on the records of the company's class: [recs, exc].
SetPrice(company, recs, product_key, price_string, clock) ==
    AssignPrice(company, recs, product_key, CleanPrice(price_string), clock)

(***************************************************************************)
(* Fetching.  A request ends "ok" or in the exception named; a fetched     *)
(* HTML page is [empty, rows]: whether r.text is empty, and the cells of   *)
(* each row element, a row being the sequence of its cells' texts.         *)
(***************************************************************************)
Recoverable == {"ReadTimeout", "ConnectTimeout", "HTTPError"}

Transport == {"ok"} \cup Recoverable \cup {"ConnectionError"}

\* cells[col], col counted from 0: [exc, text].
Cell(cells, col) ==
    IF col + 1 \in DOMAIN cells
    THEN [exc |-> "none", text |-> cells[col + 1]]
    ELSE [exc |-> "IndexError", text |-> <<>>]

\* One row of a scan: `if cells:` then clean the product cell, look the name up
\* and set the price from the price cell.  [recs, exc, found].  dedupe is
\* whether the loop keeps found_price.
ScanRow(company, recs, cells, product_col, price_col, found, dedupe, clock) ==
    LET skip == [recs |-> recs, exc |-> "none", found |-> found]
        fail(e) == [recs |-> recs, exc |-> e, found |-> found]
        set(name, sp) ==
            [recs |-> sp.recs, exc |-> sp.exc,
             found |-> IF sp.exc = "none" /\ dedupe THEN found \cup {name} ELSE found]
        price(name, cell) ==
            IF cell.exc # "none" THEN fail(cell.exc)
            ELSE set(name, SetPrice(company, recs, company.idx[name[1]], cell.text, clock))
        match(pn) ==
            IF pn.exc # "none" THEN fail(pn.exc)
            ELSE IF (dedupe /\ pn.name \in found) \/ ~InIdx(company.idx, pn.name) THEN skip
            ELSE price(pn.name, Cell(cells, price_col))
        product(cell) ==
            IF cell.exc # "none" THEN fail(cell.exc)
            ELSE match(CleanProductName(cell.text))
    IN IF cells = <<>> THEN skip ELSE product(Cell(cells, product_col))

RECURSIVE ScanRows(_, _, _, _, _, _, _, _)
ScanRows(company, recs, rows, product_col, price_col, found, dedupe, clock) ==
    LET next(one) ==
            IF one.exc # "none" THEN [recs |-> one.recs, exc |-> one.exc]
            ELSE ScanRows(company, one.recs, Tail(rows), product_col, price_col,
                          one.found, dedupe, clock)
    IN IF rows = <<>> THEN [recs |-> recs, exc |-> "none"]
       ELSE next(ScanRow(company, recs, Head(rows), product_col, price_col,
                         found, dedupe, clock))

\* A scan after its fetch: the transport's exception, the AttributeError of
\* html.find_all on the None that _get_html_soup returns for an empty text,
\* or the row loop.
ScanPage(company, recs, fetch, page, product_col, price_col, dedupe, clock) ==
    IF fetch # "ok" THEN [recs |-> recs, exc |-> fetch]
    ELSE IF page.empty THEN [recs |-> recs, exc |-> "AttributeError"]
    ELSE ScanRows(company, recs, page.rows, product_col, price_col, {}, dedupe, clock)

\* FuelCompany._get_data_from_table: the scan that keeps found_price.
GetDataFromTable(company, recs, w, product_col, price_col, clock) ==
    ScanPage(company, recs, w.fetch, w.page, product_col, price_col, TRUE, clock)

(***************************************************************************)
(* The refresh_prices() of each class.  Each takes the source, the records *)
(* of its class, what the outside world answers during the call (w) and    *)
(* the clock, and gives [recs, exc]: the records when the call ends and the *)
(* exception it ends in.                                                   *)
(***************************************************************************)
\* FuelCompanyOk.refresh_prices: role="row" elements, gridcells 0 and 1.
OkRefreshPrices(company, recs, w, clock) ==
    ScanPage(company, recs, w.fetch, w.page, 0, 1, FALSE, clock)

\* FuelCompanyOil.refresh_prices: tr elements, cells 0 and 2.
OilRefreshPrices(company, recs, w, clock) ==
    ScanPage(company, recs, w.fetch, w.page, 0, 2, FALSE, clock)

\* FuelCompanyCirclek.refresh_prices and FuelCompanyIngo.refresh_prices.
CirclekRefreshPrices(company, recs, w, clock) ==
    GetDataFromTable(company, recs, w, 1, 2, clock)

IngoRefreshPrices(company, recs, w, clock) ==
    GetDataFromTable(company, recs, w, 1, 2, clock)

\* FuelCompanyShell.refresh_prices: the loop over json_data["results"]["products"].
RECURSIVE ShellLoop(_, _, _, _)
ShellLoop(company, recs, items, clock) ==
    LET next(sp) ==
            IF sp.exc # "none" THEN sp ELSE ShellLoop(company, sp.recs, Tail(items), clock)
    IN IF items = <<>> THEN [recs |-> recs, exc |-> "none"]
       ELSE IF Head(items).name \in DOMAIN company.idx
       THEN next(SetPrice(company, recs, company.idx[Head(items).name],
                          Head(items).price_incl_vat, clock))
       ELSE ShellLoop(company, recs, Tail(items), clock)

ShellRefreshPrices(company, recs, w, clock) ==
    IF w.fetch # "ok" THEN [recs |-> recs, exc |-> w.fetch]
    ELSE IF ~w.json_ok THEN [recs |-> recs, exc |-> "JSONDecodeError"]
    ELSE ShellLoop(company, recs, w.items, clock)

\* FuelCompanyF24.refresh_fuel_prices, first loop: every record with a
\* ProductCode gets the next Index, in the order of self._products.
RECURSIVE AssignIndex(_, _, _)
AssignIndex(recs, kinds, index) ==
    IF kinds = <<>> THEN recs
    ELSE IF "ProductCode" \in DOMAIN recs[Head(kinds)]
    THEN AssignIndex([recs EXCEPT ![Head(kinds)] = SetField(@, "Index", index)],
                     Tail(kinds), index + 1)
    ELSE AssignIndex(recs, Tail(kinds), index)

\* Second loop: r.json()["Products"][Index] for every record with a ProductCode.
RECURSIVE ReadByIndex(_, _, _, _, _)
ReadByIndex(company, recs, kinds, w, clock) ==
    LET next(sp) ==
            IF sp.exc # "none" THEN sp
            ELSE ReadByIndex(company, sp.recs, Tail(kinds), w, clock)
    IN IF kinds = <<>> THEN [recs |-> recs, exc |-> "none"]
       ELSE IF "ProductCode" \in DOMAIN recs[Head(kinds)]
       THEN IF ~w.json_ok THEN [recs |-> recs, exc |-> "JSONDecodeError"]
            ELSE IF recs[Head(kinds)].Index + 1 \notin DOMAIN w.Products
            THEN [recs |-> recs, exc |-> "IndexError"]
            ELSE next(SetPrice(company, recs, Head(kinds),
                               w.Products[recs[Head(kinds)].Index + 1], clock))
       ELSE ReadByIndex(company, recs, Tail(kinds), w, clock)

\* refresh_fuel_prices with the ProductCode test of the first loop left out:
\* every record of the source gets an Index.
RefreshFuelPricesIndexAll(company, recs, w, clock) ==
    LET send(indexed) ==
            IF w.post # "ok" THEN [recs |-> indexed, exc |-> w.post]
            ELSE ReadByIndex(company, indexed, company.kinds, w, clock)
    IN send([k \in DOMAIN recs |->
                IF k \in Range(company.kinds)
                THEN SetField(recs[k], "Index",
                              (CHOOSE i \in DOMAIN company.kinds : company.kinds[i] = k) - 1)
                ELSE recs[k]])

\* refresh_fuel_prices with the first Index 1 for 0.
RefreshFuelPricesFromOne(company, recs, w, clock) ==
    LET send(indexed) ==
            IF w.post # "ok" THEN [recs |-> indexed, exc |-> w.post]
            ELSE ReadByIndex(company, indexed, company.kinds, w, clock)
    IN send(AssignIndex(recs, company.kinds, 1))

\* FuelCompanyF24.refresh_fuel_prices: the Index of each record, the POST, the
\* prices read by Index.
RefreshFuelPrices(company, recs, w, clock) ==
    LET send(indexed) ==
            IF w.post # "ok" THEN [recs |-> indexed, exc |-> w.post]
            ELSE ReadByIndex(company, indexed, company.kinds, w, clock)
    IN send(AssignIndex(recs, company.kinds, 0))

Subscribed(company, kind) == \E n \in DOMAIN company.idx : company.idx[n] = kind

\* refresh_electric_prices choosing the cells by the subscription for by the
\* number of cells: quick-charge gets the first cell whenever it is subscribed.
RefreshElectricPricesBySubscription(company, recs, w, clock) ==
    LET charge(quick, rest) ==
            IF quick.exc # "none" THEN quick
            ELSE IF ~Subscribed(company, CHARGE) THEN quick
            ELSE IF rest = <<>> THEN [recs |-> quick.recs, exc |-> "IndexError"]
            ELSE SetPrice(company, quick.recs, CHARGE, rest[1], clock)
        read(prices) ==
            charge(IF Subscribed(company, QUICKCHARGE)
                   THEN IF prices = <<>> THEN [recs |-> recs, exc |-> "IndexError"]
                        ELSE SetPrice(company, recs, QUICKCHARGE, prices[1], clock)
                   ELSE [recs |-> recs, exc |-> "none"],
                   IF Subscribed(company, QUICKCHARGE) /\ prices # <<>>
                   THEN Tail(prices) ELSE prices)
    IN IF w.get # "ok" THEN [recs |-> recs, exc |-> w.get]
       ELSE IF w.page.empty THEN [recs |-> recs, exc |-> "AttributeError"]
       ELSE IF Len(w.page.rows) < 4 THEN [recs |-> recs, exc |-> "IndexError"]
       ELSE read(IF w.page.rows[4] = <<>> THEN <<>> ELSE Tail(w.page.rows[4]))

\* FuelCompanyF24.refresh_electric_prices: the cells after the first of the
\* fourth row.
RefreshElectricPrices(company, recs, w, clock) ==
    LET charge(quick, rest) ==
            IF quick.exc # "none" THEN quick
            ELSE IF ~Subscribed(company, CHARGE) THEN quick
            ELSE IF rest = <<>> THEN [recs |-> quick.recs, exc |-> "IndexError"]
            ELSE SetPrice(company, quick.recs, CHARGE, rest[1], clock)
        read(prices) ==
            charge(IF Len(prices) = 2 /\ Subscribed(company, QUICKCHARGE)
                   THEN SetPrice(company, recs, QUICKCHARGE, prices[1], clock)
                   ELSE [recs |-> recs, exc |-> "none"],
                   IF Len(prices) = 2 THEN Tail(prices) ELSE prices)
    IN IF w.get # "ok" THEN [recs |-> recs, exc |-> w.get]
       ELSE IF w.page.empty THEN [recs |-> recs, exc |-> "AttributeError"]
       ELSE IF Len(w.page.rows) < 4 THEN [recs |-> recs, exc |-> "IndexError"]
       ELSE read(IF w.page.rows[4] = <<>> THEN <<>> ELSE Tail(w.page.rows[4]))

\* FuelCompanyF24.refresh_prices (FuelCompanyQ8 inherits it).
F24RefreshPrices(company, recs, w, clock) ==
    LET electric(fuel) ==
            IF fuel.exc # "none" THEN fuel
            ELSE IF Subscribed(company, QUICKCHARGE) \/ Subscribed(company, CHARGE)
            THEN RefreshElectricPrices(company, fuel.recs, w, clock)
            ELSE fuel
    IN electric(RefreshFuelPrices(company, recs, w, clock))

\* FuelCompanyGoon._goon_ocr: the page, the image, then one OCR run per record;
\* an empty output sets nothing.
RECURSIVE OcrLoop(_, _, _, _, _)
OcrLoop(company, recs, kinds, w, clock) ==
    LET next(sp) ==
            IF sp.exc # "none" THEN sp ELSE OcrLoop(company, sp.recs, Tail(kinds), w, clock)
    IN IF kinds = <<>> THEN [recs |-> recs, exc |-> "none"]
       ELSE IF w.ocr[Head(kinds)] = <<>>
       THEN OcrLoop(company, recs, Tail(kinds), w, clock)
       ELSE next(SetPrice(company, recs, Head(kinds), Strip(w.ocr[Head(kinds)]), clock))

GoonOcr(company, recs, w, clock) ==
    IF w.fetch # "ok" THEN [recs |-> recs, exc |-> w.fetch]
    ELSE IF w.page.empty THEN [recs |-> recs, exc |-> "AttributeError"]
    ELSE IF ~w.img THEN [recs |-> recs, exc |-> "TypeError"]
    ELSE IF w.download # "ok" THEN [recs |-> recs, exc |-> w.download]
    ELSE OcrLoop(company, recs, company.kinds, w, clock)

\* FuelCompanyGoon._goon_list_prices: [recs, exc, price_type]; _price_type is
\* set after the scan, so not when the scan raises.
GoonListPrices(company, recs, w, clock) ==
    LET mark(scan) ==
            [recs |-> scan.recs, exc |-> scan.exc,
             price_type |-> IF scan.exc = "none" THEN "list" ELSE company.price_type]
    IN mark(GetDataFromTable(company, recs, w, 0, 7, clock))

\* FuelCompanyGoon.refresh_prices: shutil.which("ssocr") decides.
GoonRefreshPrices(company, recs, w, clock) ==
    LET keep(o) == [recs |-> o.recs, exc |-> o.exc, price_type |-> company.price_type]
    IN IF ~w.ssocr
       THEN GoonListPrices(company, recs, w, clock)
       ELSE keep(GoonOcr(company, recs, w, clock))

\* The epoch test with < for <=: a record as old as the accepted one is refused.
AcceptsStrict(record, json_data) ==
    \/ "DateUnixEpoc" \notin DOMAIN record
    \/ record.DateUnixEpoc < json_data.DateUnixEpoc

\* The epoch test of FuelCompanyUnox.refresh_prices: no epoch stored on the
\* product record yet, or one not greater than the record's.
Accepts(record, json_data) ==
    \/ "DateUnixEpoc" \notin DOMAIN record
    \/ record.DateUnixEpoc <= json_data.DateUnixEpoc

\* FuelCompanyUnox.refresh_prices: the records the pattern finds, in order.
RECURSIVE UnoxLoop(_, _, _, _)
UnoxLoop(company, recs, matches, clock) ==
    LET next(k, epoch, sp) ==
            IF sp.exc # "none" THEN sp
            ELSE UnoxLoop(company,
                          [sp.recs EXCEPT ![k] = SetField(@, "DateUnixEpoc", epoch)],
                          Tail(matches), clock)
        accept(json_data, k) ==
            IF Accepts(recs[k], json_data)
            THEN next(k, json_data.DateUnixEpoc,
                      SetPrice(company, recs, k, json_data.PumpPrice, clock))
            ELSE UnoxLoop(company, recs, Tail(matches), clock)
    IN IF matches = <<>> THEN [recs |-> recs, exc |-> "none"]
       ELSE IF Head(matches).Product \in DOMAIN company.idx
       THEN accept(Head(matches), company.idx[Head(matches).Product])
       ELSE UnoxLoop(company, recs, Tail(matches), clock)

UnoxRefreshPrices(company, recs, w, clock) ==
    IF w.fetch # "ok" THEN [recs |-> recs, exc |-> w.fetch]
    ELSE UnoxLoop(company, recs, w.matches, clock)

\* company.refresh_prices(): the method of the source's class.
\* [recs, exc, price_type].
RefreshPrices(company, recs, w, clock) ==
    LET keep(res) == [recs |-> res.recs, exc |-> res.exc,
                      price_type |-> company.price_type]
    IN CASE company.cls = FuelCompanyOk -> keep(OkRefreshPrices(company, recs, w, clock))
         [] company.cls = FuelCompanyShell -> keep(ShellRefreshPrices(company, recs, w, clock))
         [] company.cls = FuelCompanyCirclek -> keep(CirclekRefreshPrices(company, recs, w, clock))
         [] company.cls \in {FuelCompanyF24, FuelCompanyQ8} ->
              keep(F24RefreshPrices(company, recs, w, clock))
         [] company.cls = FuelCompanyIngo -> keep(IngoRefreshPrices(company, recs, w, clock))
         [] company.cls = FuelCompanyOil -> keep(OilRefreshPrices(company, recs, w, clock))
         [] company.cls = FuelCompanyGoon -> GoonRefreshPrices(company, recs, w, clock)
         [] company.cls = FuelCompanyUnox -> keep(UnoxRefreshPrices(company, recs, w, clock))

\* The _name of each class.
Name(cls) ==
    CASE cls = FuelCompanyOk -> "OK"
      [] cls = FuelCompanyShell -> "Shell"
      [] cls = FuelCompanyCirclek -> "Circle K"
      [] cls = FuelCompanyF24 -> "F24"
      [] cls = FuelCompanyQ8 -> "Q8"
      [] cls = FuelCompanyIngo -> "Ingo"
      [] cls = FuelCompanyOil -> "OIL!"
      [] cls = FuelCompanyGoon -> "Go' on"
      [] cls = FuelCompanyUnox -> "Uno-X"

(***************************************************************************)
(* The state after `FuelPrices()`: empty registries, untouched catalogs.   *)
(***************************************************************************)
Init ==
    /\ products = InitialProducts
    /\ companies = [r \in Registries |-> <<>>]
    /\ lastLoad = NoLoad
    /\ status = "idle"
    /\ cur = "r1"
    /\ pos = 1
    /\ calls = <<>>
    /\ warnings = <<>>
    /\ now = 0
    /\ firstRows = <<>>
    /\ world = <<>>

(***************************************************************************)
(* SpecLoad: one load_companies call on a fresh registry, over key lists   *)
(* that hold known keys, case variants, the empty string and unknown keys. *)
(***************************************************************************)
LoadKeys ==
    Range(company_keys) \cup
    { <<>>, <<"O", "K">>, <<"O", "k">>, <<"o", "K">>, <<"Q", "8">>, <<"F", "2", "4">>,
      <<"S", "H", "E", "L", "L">>, <<"U", "n", "o", "x">>,
      <<"o", "k", "k">>, <<"x", "y", "z">>, <<" ", "o", "k">>, <<"o">> }

LoadFilters ==
    { PyNone, PyList(<<>>), PyList(<<DIESEL>>), PyList(<<OCTANE_95, DIESEL>>),
      PyList(<<QUICKCHARGE, CHARGE>>), PyList(<<"benzin">>) }

LoadKeyLists == { PyNone } \cup { PyList(s) : s \in SeqsUpTo(LoadKeys, MaxKeys) }

LoadOnce ==
    /\ companies["r1"] = <<>>
    /\ lastLoad = NoLoad
    /\ \E ks \in LoadKeyLists, f \in LoadFilters : LoadCompanies("r1", ks, f)

NextLoad == LoadOnce

SpecLoad == Init /\ [][NextLoad]_vars

(***************************************************************************)
(* FuelPrices.refresh(): one refresh_prices() per step, in the order of    *)
(* self.companies.items().  The clock moves on by one tick per pass.       *)
(***************************************************************************)
\* The try statement without its HTTPError clause.
GuardNoHttp(exc) ==
    IF exc = "none" THEN "next"
    ELSE IF exc \in {"ReadTimeout", "ConnectTimeout"} THEN "warn" ELSE "raise"

\* What the try statement does with the exception a refresh_prices() call
\* ended in: "next" (no exception), "warn" (one of the except clauses) or
\* "raise" (it leaves refresh()).
Guard(exc) ==
    IF exc = "none" THEN "next"
    ELSE IF exc \in {"ReadTimeout", "ConnectTimeout", "HTTPError"} THEN "warn"
    ELSE "raise"

\* The classes whose refresh_prices() scans the rows of a page, and whether this
\* call does (Go' on only without ssocr).
ScanClasses ==
    { FuelCompanyOk, FuelCompanyCirclek, FuelCompanyIngo, FuelCompanyOil, FuelCompanyGoon }

Scans(company, w) ==
    /\ company.cls \in ScanClasses
    /\ company.cls = FuelCompanyGoon => ~w.ssocr

\* The columns each scanning class reads.
Cols(cls) ==
    CASE cls = FuelCompanyOk -> <<0, 1>>
      [] cls \in {FuelCompanyCirclek, FuelCompanyIngo} -> <<1, 2>>
      [] cls = FuelCompanyOil -> <<0, 2>>
      [] cls = FuelCompanyGoon -> <<0, 7>>

\* The rows of a page whose cleaned product cell is the display name n.
RowsNamed(rows, product_col, n) ==
    { i \in DOMAIN rows :
        /\ Cell(rows[i], product_col).exc = "none"
        /\ CleanProductName(Cell(rows[i], product_col).text) = [exc |-> "none", name |-> <<n>>] }

\* The price cell of the first of the rows `named`: <<text>>, or <<>> when there
\* is no row or no such cell.
FirstPriceCell(rows, price_col, named) ==
    LET text(c) == IF c.exc = "none" THEN <<c.text>> ELSE <<>>
    IN IF named = {} THEN <<>>
       ELSE text(Cell(rows[CHOOSE i \in named : \A j \in named : i <= j], price_col))

\* For each display name of the source, the price cell of the first row of the
\* scanned page with that name.
FirstRows(company, w) ==
    IF Scans(company, w) /\ w.fetch = "ok" /\ ~w.page.empty
    THEN [n \in DOMAIN company.idx |->
            FirstPriceCell(w.page.rows, Cols(company.cls)[2],
                           RowsNamed(w.page.rows, Cols(company.cls)[1], n))]
    ELSE <<>>

StartRefresh(r) ==
    /\ status # "running"
    /\ now < MaxClock
    /\ now' = now + 1
    /\ status' = IF companies[r] = <<>> THEN "returned" ELSE "running"
    /\ cur' = r
    /\ pos' = 1
    /\ calls' = <<>>
    /\ warnings' = <<>>
    /\ firstRows' = <<>>
    /\ world' = <<>>
    /\ UNCHANGED <<products, companies, lastLoad>>

\* The loop body for the source at pos, the world answering w.
RefreshCompany(w) ==
    /\ status = "running"
    /\ \E company \in {companies[cur][pos]} :
       \E res \in {RefreshPrices(company, products[company.cls], w, now)} :
       \E todo \in {Guard(res.exc)} :
          /\ products' = [products EXCEPT ![company.cls] = res.recs]
          /\ companies' = [companies EXCEPT ![cur][pos].price_type = res.price_type]
          /\ calls' = Append(calls, [key |-> company.key, exc |-> res.exc])
          /\ warnings' = IF todo = "warn"
                         THEN Append(warnings, [exc |-> res.exc, name |-> Name(company.cls)])
                         ELSE warnings
          /\ pos' = IF todo = "raise" THEN pos ELSE pos + 1
          /\ status' = IF todo = "raise" THEN "raised"
                       ELSE IF pos = Len(companies[cur]) THEN "returned"
                       ELSE "running"
          /\ firstRows' = FirstRows(company, w)
    /\ world' = w
    /\ UNCHANGED <<lastLoad, cur, now>>

(***************************************************************************)
(* What the outside world can answer.                                      *)
(***************************************************************************)
PriceA == <<"1", "2", ",", "3", "4", " kr.">>
PriceB == <<"9", ".", "9", "9">>
PriceC == <<"Pris inkl. moms: ", "1", "0", ",", "5", " kr/kWh", " ">>
PriceBad == <<"n/a">>
PumpPriceA == <<"1", "4", ".", "7", "8">>
PumpPriceB == <<"1", "3", ".", "0", "9">>

Filler == <<"-">>

\* A row of n cells with the given texts in the product and price columns.
MkRow(n, product_col, price_col, product_text, price_text) ==
    [i \in 1..n |-> IF i = product_col + 1 THEN product_text
                    ELSE IF i = price_col + 1 THEN price_text
                    ELSE Filler]

NoPage == [empty |-> TRUE, rows |-> <<>>]

\* A well-formed page: one row per kind of `kinds`, all at the same price.
PageOf(cls, kinds, price) ==
    [empty |-> FALSE,
     rows |-> [i \in DOMAIN kinds |->
                 MkRow(Cols(cls)[2] + 1, Cols(cls)[1], Cols(cls)[2],
                       <<CatalogRecord(cls, kinds[i]).name>>, price)]]

FirstOf(s) == IF s = <<>> THEN <<>> ELSE <<s[1]>>

\* The pages of the small worlds: the whole catalog at one price, or its first
\* product at another.
SamplePages(cls) ==
    { PageOf(cls, CatalogOrder(cls), PriceA), PageOf(cls, FirstOf(CatalogOrder(cls)), PriceB) }

FailedFetches == Transport \ {"ok"}

ScanWorlds(cls, pages) ==
    { [fetch |-> "ok", page |-> p] : p \in pages }
    \cup { [fetch |-> t, page |-> NoPage] : t \in FailedFetches }

ShellWorlds ==
    { [fetch |-> "ok", json_ok |-> TRUE, items |-> it] :
        it \in { [i \in DOMAIN CatalogOrder(FuelCompanyShell) |->
                    [name |-> CatalogRecord(FuelCompanyShell,
                                            CatalogOrder(FuelCompanyShell)[i]).name,
                     price_incl_vat |-> PriceA]],
                 << [name |-> "Shell FuelSave Diesel", price_incl_vat |-> PriceB],
                    [name |-> "Shell Benzin", price_incl_vat |-> PriceA] >> } }
    \cup { [fetch |-> "ok", json_ok |-> FALSE, items |-> <<>>] }
    \cup { [fetch |-> t, json_ok |-> FALSE, items |-> <<>>] : t \in FailedFetches }

\* The electricity page: three rows of no interest, then a label cell and one
\* or two price cells.
ElectricPage(cells) == [empty |-> FALSE, rows |-> <<<<>>, <<Filler>>, <<Filler>>, cells>>]

F24Worlds ==
    { [post |-> "ok", json_ok |-> TRUE, Products |-> ps, get |-> "ok", page |-> pg] :
        ps \in { <<PriceA, PriceA, PriceA, PriceA>>, <<PriceB, PriceA, PriceB, PriceA>> },
        pg \in { ElectricPage(<<Filler, PriceC>>), ElectricPage(<<Filler, PriceB, PriceC>>) } }
    \cup { [post |-> "ok", json_ok |-> TRUE, Products |-> <<PriceB, PriceB, PriceB, PriceB>>,
            get |-> t, page |-> NoPage] : t \in FailedFetches }
    \cup { [post |-> t, json_ok |-> FALSE, Products |-> <<>>, get |-> "ok", page |-> NoPage] :
            t \in FailedFetches }

GoonWorlds ==
    { [ssocr |-> FALSE, fetch |-> w.fetch, page |-> w.page, img |-> FALSE,
       download |-> "ok", ocr |-> [k \in CatalogKinds(FuelCompanyGoon) |-> <<>>]] :
        w \in ScanWorlds(FuelCompanyGoon, SamplePages(FuelCompanyGoon)) }
    \cup { [ssocr |-> TRUE, fetch |-> "ok", page |-> [empty |-> FALSE, rows |-> <<>>],
            img |-> TRUE, download |-> d, ocr |-> o] :
            d \in {"ok", "ReadTimeout"},
            o \in { [k \in CatalogKinds(FuelCompanyGoon) |-> PriceB],
                    [k \in CatalogKinds(FuelCompanyGoon) |->
                        IF k = DIESEL THEN <<>> ELSE <<"1", "4", ".", "7", "9", " ">>] } }
    \cup { [ssocr |-> TRUE, fetch |-> t, page |-> NoPage, img |-> FALSE,
            download |-> "ok", ocr |-> [k \in CatalogKinds(FuelCompanyGoon) |-> <<>>]] :
            t \in FailedFetches }

UnoxWorlds ==
    { [fetch |-> "ok", matches |-> m] :
        m \in { << [Product |-> "Diesel", PumpPrice |-> PriceB, DateUnixEpoc |-> 100] >>,
                << [Product |-> "Blyfri 95 E10", PumpPrice |-> PriceB, DateUnixEpoc |-> 200],
                   [Product |-> "Diesel", PumpPrice |-> <<"1", "4", ".", "7", "8">>,
                    DateUnixEpoc |-> 200],
                   [Product |-> "Blyfri 92", PumpPrice |-> PriceB, DateUnixEpoc |-> 200],
                   [Product |-> "Diesel", PumpPrice |-> PriceB, DateUnixEpoc |-> 100] >> } }
    \cup { [fetch |-> t, matches |-> <<>>] : t \in FailedFetches }

\* What F24 and Q8 can be answered: the response to the POST lists up to four
\* prices, all different, or one that is no number among them; the fourth row
\* of the electricity page has a label cell and up to three price cells.
FuelPriceList == <<PriceA, PriceB, PumpPriceA, PumpPriceB>>

FuelPriceLists ==
    { SubSeq(FuelPriceList, 1, n) : n \in 0..Len(FuelPriceList) }
    \cup { [i \in DOMAIN FuelPriceList |-> FuelPriceList[Len(FuelPriceList) + 1 - i]] }
    \cup { <<PriceA, PriceBad, PriceB, PumpPriceA>> }

ElectricCells ==
    <<PriceC, <<"3", ",", "7", "5", " kr/kWh">>, <<"Pris inkl. moms: ", "2", ".", "5">>>>

ElectricPages ==
    { ElectricPage(<<Filler>> \o SubSeq(ElectricCells, 1, n)) : n \in 0..Len(ElectricCells) }
    \cup { ElectricPage(<<>>), NoPage, [empty |-> FALSE, rows |-> <<<<>>, <<Filler>>>>] }

F24Responses ==
    { [post |-> "ok", json_ok |-> TRUE, Products |-> ps, get |-> "ok", page |-> pg] :
        ps \in FuelPriceLists, pg \in ElectricPages }
    \cup { [post |-> "ok", json_ok |-> TRUE, Products |-> FuelPriceList, get |-> t,
            page |-> NoPage] : t \in FailedFetches }
    \cup { [post |-> "ok", json_ok |-> FALSE, Products |-> <<>>, get |-> "ok",
            page |-> ElectricPage(<<Filler>> \o ElectricCells)] }
    \cup { [post |-> t, json_ok |-> FALSE, Products |-> <<>>, get |-> "ok", page |-> NoPage] :
            t \in FailedFetches }

\* The small worlds of a source.
SampleWorlds(company) ==
    CASE company.cls \in {FuelCompanyOk, FuelCompanyCirclek, FuelCompanyIngo, FuelCompanyOil} ->
           ScanWorlds(company.cls, SamplePages(company.cls))
      [] company.cls = FuelCompanyShell -> ShellWorlds
      [] company.cls \in {FuelCompanyF24, FuelCompanyQ8} -> F24Worlds
      [] company.cls = FuelCompanyGoon -> GoonWorlds
      [] company.cls = FuelCompanyUnox -> UnoxWorlds

(***************************************************************************)
(* Spec: two registries, each loaded once, and refresh() passes over them. *)
(***************************************************************************)
KeyOk == <<"o", "k">>
KeyShell == <<"s", "h", "e", "l", "l">>
KeyF24 == <<"f", "2", "4">>
KeyUnox == <<"u", "n", "o", "x">>

SubscribeCompanies ==
    { PyList(<<KeyShell, KeyOk>>), PyList(<<KeyF24, KeyUnox>>), PyList(<<KeyOk>>) }

SubscribeProducts == { PyNone, PyList(<<DIESEL, CHARGE>>) }

Load ==
    \E r \in Registries, ks \in SubscribeCompanies, f \in SubscribeProducts :
        /\ companies[r] = <<>>
        /\ LoadCompanies(r, ks, f)

Start == \E r \in Registries : StartRefresh(r)

Step ==
    /\ status = "running"
    /\ \E w \in SampleWorlds(companies[cur][pos]) : RefreshCompany(w)

Next == Load \/ Start \/ Step

Spec == Init /\ [][Next]_vars

(***************************************************************************)
(* SpecSource: one source, built by load_companies with one of the nine    *)
(* keys, and refresh() passes over it in which a scanned page is any page  *)
(* of at most MaxRows rows: rows without cells, with one cell, with all    *)
(* the cells; product cells that are a display name (plain or decorated),  *)
(* another name, empty or blank; price cells in every format.              *)
(***************************************************************************)
NthName(cls, n) == CatalogRecord(cls, CatalogOrder(cls)[n]).name

ScanRowMenu(cls) ==
    LET product_col == Cols(cls)[1]
        price_col == Cols(cls)[2]
        n1 == NthName(cls, 1)
        n2 == NthName(cls, 2)
        full(product_text, price_text) ==
            MkRow(price_col + 1, product_col, price_col, product_text, price_text)
    IN { <<>>, MkRow(1, product_col, price_col, <<n1>>, PriceA) }
       \cup { full(pt, pr) :
                pt \in { <<n1>>, <<" ", "Beskrivelse: ", n1, ".">>, <<n2>>, <<"Super">> },
                pr \in { PriceA, PriceB } }
       \cup { full(<<>>, PriceA), full(<<" ">>, PriceA), full(<<n1>>, PriceBad) }

ScanPages(cls) ==
    { NoPage } \cup { [empty |-> FALSE, rows |-> rs] : rs \in SeqsUpTo(ScanRowMenu(cls), MaxRows) }

Worlds(company) ==
    CASE company.cls \in ScanClasses \ {FuelCompanyGoon} ->
           ScanWorlds(company.cls, ScanPages(company.cls))
      [] company.cls = FuelCompanyGoon ->
           GoonWorlds \cup
           { [ssocr |-> FALSE, fetch |-> "ok", page |-> p, img |-> FALSE, download |-> "ok",
              ocr |-> [k \in CatalogKinds(FuelCompanyGoon) |-> <<>>]] :
               p \in ScanPages(FuelCompanyGoon) }
      [] company.cls \in {FuelCompanyF24, FuelCompanyQ8} -> F24Responses
      [] OTHER -> SampleWorlds(company)

SourceFilters == { PyNone, PyList(<<OCTANE_95, DIESEL>>) }

InitSource ==
    /\ products = InitialProducts
    /\ \E k \in Range(company_keys), f \in SourceFilters :
         LET res == LoadCompaniesResult(<<>>, PyList(<<k>>), f)
         IN /\ companies = [r \in Registries |-> IF r = "r1" THEN res.reg ELSE <<>>]
            /\ lastLoad = [reg |-> "r1", subscribe_companies |-> PyList(<<k>>),
                           subscribe_products |-> f, warned |-> res.warned, exc |-> res.exc]
    /\ status = "idle"
    /\ cur = "r1"
    /\ pos = 1
    /\ calls = <<>>
    /\ warnings = <<>>
    /\ now = 0
    /\ firstRows = <<>>
    /\ world = <<>>

StartSource == StartRefresh("r1")

StepSource ==
    /\ status = "running"
    /\ \E w \in Worlds(companies[cur][pos]) : RefreshCompany(w)

NextSource == StartSource \/ StepSource

SpecSource == InitSource /\ [][NextSource]_vars

(***************************************************************************)
(* SpecUnox: one Uno-X source and refresh() passes over it in which the    *)
(* document holds any sequence of at most MaxRecords records: two epochs,  *)
(* two prices, the same product twice in either order, a product the       *)
(* catalog does not have.                                                  *)
(***************************************************************************)
UnoxRecordMenu ==
    { [Product |-> "Diesel", PumpPrice |-> pr, DateUnixEpoc |-> e] :
        pr \in {PumpPriceA, PumpPriceB}, e \in {100, 200} }
    \cup { [Product |-> "Blyfri 95 E10", PumpPrice |-> PumpPriceA, DateUnixEpoc |-> 100],
            [Product |-> "Blyfri 95 E10", PumpPrice |-> PumpPriceB, DateUnixEpoc |-> 200],
            [Product |-> "Blyfri 92", PumpPrice |-> PumpPriceA, DateUnixEpoc |-> 200] }

UnoxDocuments ==
    { [fetch |-> "ok", matches |-> m] : m \in SeqsUpTo(UnoxRecordMenu, MaxRecords) }
    \cup { [fetch |-> t, matches |-> <<>>] : t \in FailedFetches }

UnoxFilters == { PyNone, PyList(<<DIESEL>>) }

InitUnox ==
    /\ products = InitialProducts
    /\ \E f \in UnoxFilters :
         \E res \in {LoadCompaniesResult(<<>>, PyList(<<KeyUnox>>), f)} :
            /\ companies = [r \in Registries |-> IF r = "r1" THEN res.reg ELSE <<>>]
            /\ lastLoad = [reg |-> "r1", subscribe_companies |-> PyList(<<KeyUnox>>),
                           subscribe_products |-> f, warned |-> res.warned, exc |-> res.exc]
    /\ status = "idle"
    /\ cur = "r1"
    /\ pos = 1
    /\ calls = <<>>
    /\ warnings = <<>>
    /\ now = 0
    /\ firstRows = <<>>
    /\ world = <<>>

StartUnox == StartRefresh("r1")

StepUnox ==
    /\ status = "running"
    /\ \E w \in UnoxDocuments : RefreshCompany(w)

NextUnox == StartUnox \/ StepUnox

SpecUnox == InitUnox /\ [][NextUnox]_vars

(***************************************************************************)
(* SpecF24: one F24 or Q8 source under a subscription filter, and          *)
(* refresh() passes over it answered by F24Responses.                      *)
(***************************************************************************)
KeyQ8 == <<"q", "8">>

F24Filters ==
    { PyNone, PyList(<<DIESEL, CHARGE>>), PyList(<<QUICKCHARGE>>),
      PyList(<<OCTANE_95_PLUS, DIESEL_PLUS, QUICKCHARGE, CHARGE>>),
      PyList(<<DIESEL_PLUS, OCTANE_95>>), PyList(<<>>) }

InitF24 ==
    /\ products = InitialProducts
    /\ \E k \in {KeyF24, KeyQ8}, f \in F24Filters :
         \E res \in {LoadCompaniesResult(<<>>, PyList(<<k>>), f)} :
            /\ companies = [r \in Registries |-> IF r = "r1" THEN res.reg ELSE <<>>]
            /\ lastLoad = [reg |-> "r1", subscribe_companies |-> PyList(<<k>>),
                           subscribe_products |-> f, warned |-> res.warned, exc |-> res.exc]
    /\ status = "idle"
    /\ cur = "r1"
    /\ pos = 1
    /\ calls = <<>>
    /\ warnings = <<>>
    /\ now = 0
    /\ firstRows = <<>>
    /\ world = <<>>

StartF24 == StartRefresh("r1")

StepF24 ==
    /\ status = "running"
    /\ \E w \in F24Responses : RefreshCompany(w)

NextF24 == StartF24 \/ StepF24

SpecF24 == InitF24 /\ [][NextF24]_vars

(***************************************************************************)
(* Views used by the properties.                                           *)
(***************************************************************************)
\* company.products: the records of the kinds the source kept.
View(prods, company) == [k \in Range(company.kinds) |-> prods[company.cls][k]]

\* The price and the last_update of a record, each if set.
PriceFields(record) == [f \in DOMAIN record \cap {"price", "last_update"} |-> record[f]]

PriceView(prods, company) ==
    [k \in Range(company.kinds) |-> PriceFields(prods[company.cls][k])]

KeysOf(s) == [i \in DOMAIN s |-> s[i].key]

RefreshEnded == status \in {"returned", "raised"}

FailedCalls == SelectSeq(calls, LAMBDA c : c.exc # "none")

CompanyOfKey(r, k) == companies[r][CHOOSE i \in DOMAIN companies[r] : companies[r][i].key = k]

\* The step is a refresh_prices() call: the running refresh() records one.
IsRefreshCall == status = "running" /\ Len(calls') = Len(calls) + 1

(***************************************************************************)
(* C1.  When a source's refresh_prices() ends in a failure that is neither *)
(* a timeout nor an HTTP error status, every later source of the registry  *)
(* is still attempted in the same refresh() pass: when the pass has ended, *)
(* every source has been called.  The code does not do this: refresh()     *)
(* has no except clause for such a failure, which ends the pass.           *)
(***************************************************************************)
C1_LaterSourcesStillAttempted ==
    (RefreshEnded /\ \E i \in DOMAIN calls : calls[i].exc \notin {"none"} \cup Recoverable)
        => KeysOf(calls) = KeysOf(companies[cur])

(***************************************************************************)
(* C2.  When every refresh_prices() call of a pass succeeds or ends in a   *)
(* read timeout, a connect timeout or an HTTP error status, refresh()      *)
(* returns without raising, has called refresh_prices() once on every      *)
(* source in registry order, and has logged one warning per failing        *)
(* source, naming it.                                                      *)
(***************************************************************************)
C2_RecoverableFailuresIsolated ==
    (RefreshEnded /\ \A i \in DOMAIN calls : calls[i].exc \in {"none"} \cup Recoverable)
        => /\ status = "returned"
           /\ KeysOf(calls) = KeysOf(companies[cur])
           /\ Len(warnings) = Len(FailedCalls)
           /\ \A i \in DOMAIN warnings :
                /\ warnings[i].exc = FailedCalls[i].exc
                /\ warnings[i].name = Name(CompanyOfKey(cur, FailedCalls[i].key).cls)

\* A pass over two sources in which the first timed out or got an HTTP error
\* and the second was refreshed and has a price.
C2_Witness ==
    /\ status = "returned"
    /\ Len(calls) = 2
    /\ calls[1].exc \in Recoverable
    /\ calls[2].exc = "none"
    /\ Len(warnings) = 1
    /\ \E k \in Range(companies[cur][2].kinds) :
         "price" \in DOMAIN View(products, companies[cur][2])[k]

(***************************************************************************)
(* C3.  A refresh_prices() call that ends in a read timeout, a connect     *)
(* timeout or an HTTP error status leaves the price and the last-update    *)
(* timestamp of every product of that source as they were before the call. *)
(* The code does not do this for F24 and Q8: when the electricity GET      *)
(* fails, the fuel prices of the POST before it are already set.           *)
(***************************************************************************)
C3_FailedRefreshKeepsPrices ==
    [][(IsRefreshCall /\ calls'[Len(calls')].exc \in Recoverable)
         => PriceView(products', companies[cur][pos]) = PriceView(products, companies[cur][pos])]_vars

(***************************************************************************)
(* C6.  A refresh_prices() call on one source changes no product record    *)
(* seen through the products of another source.  The code does not do      *)
(* this: the records are the dicts of the class-level _products, which     *)
(* every instance of the class holds, filtered or not.                     *)
(***************************************************************************)
C6_NoSharedRecords ==
    [][IsRefreshCall =>
         \A r \in Registries : \A i \in DOMAIN companies[r] :
            <<r, i>> # <<cur, pos>>
                => View(products', companies[r][i]) = View(products, companies[r][i])]_vars

(***************************************************************************)
(* C7.  As claimed: besides price and last_update no field of a product    *)
(* record is ever added or changed.  The code adds Index (F24 and Q8) and  *)
(* DateUnixEpoc (Uno-X).                                                   *)
(***************************************************************************)
C7_OnlyPriceAndTimestamp ==
    \A cls \in Classes : \A k \in CatalogKinds(cls) :
        LET rec == products[cls][k]
            base == CatalogRecord(cls, k)
        IN /\ DOMAIN rec \subseteq DOMAIN base \cup {"price", "last_update"}
           /\ \A f \in DOMAIN base : f \in DOMAIN rec /\ rec[f] = base[f]

(***************************************************************************)
(* C7, amended.  The fields of the built-in record (name, ProductCode,     *)
(* type, ocr_crop) are never changed or removed, and the only fields ever  *)
(* added are price and last_update, Index on the F24 and Q8 records that   *)
(* carry a ProductCode, and DateUnixEpoc on Uno-X records.                 *)
(***************************************************************************)
C7_OnlyPriceTimestampAndBookkeeping ==
    \A cls \in Classes : \A k \in CatalogKinds(cls) :
        LET rec == products[cls][k]
            base == CatalogRecord(cls, k)
        IN /\ DOMAIN rec \subseteq
                DOMAIN base \cup {"price", "last_update"}
                \cup (IF cls \in {FuelCompanyF24, FuelCompanyQ8} /\ "ProductCode" \in DOMAIN base
                      THEN {"Index"} ELSE {})
                \cup (IF cls = FuelCompanyUnox THEN {"DateUnixEpoc"} ELSE {})
           /\ \A f \in DOMAIN base : f \in DOMAIN rec /\ rec[f] = base[f]

\* F24 has been refreshed: a fuel record has its Index and a price, and the
\* electricity record a price and no Index; and a Uno-X record has its epoch.
C7_Witness ==
    /\ DOMAIN products[FuelCompanyF24][DIESEL]
         = {"name", "ProductCode", "Index", "price", "last_update"}
    /\ DOMAIN products[FuelCompanyF24][CHARGE] = {"name", "type", "price", "last_update"}
    /\ DOMAIN products[FuelCompanyUnox][DIESEL]
         = {"name", "DateUnixEpoc", "price", "last_update"}

(***************************************************************************)
(* C8.  In every state the kinds of a source's catalog are the kinds of    *)
(* its class's built-in catalog that are in the subscription filter it was *)
(* built with, or all of them when it was built with None.                 *)
(***************************************************************************)
C8_CatalogIsBuiltinCutByFilter ==
    \A r \in Registries : \A i \in DOMAIN companies[r] :
        LET company == companies[r][i]
        IN /\ DOMAIN View(products, company)
                = IF company.subscribed.isNone
                  THEN CatalogKinds(company.cls)
                  ELSE CatalogKinds(company.cls) \cap Range(company.subscribed.val)
           /\ Range(company.kinds) \subseteq DOMAIN products[company.cls]

\* A filtered source after a failed and a successful refresh_prices().
C8_Witness ==
    /\ now = 2
    /\ status = "returned"
    /\ \E i \in DOMAIN companies[cur] :
         LET company == companies[cur][i]
         IN /\ ~company.subscribed.isNone
            /\ Range(company.kinds) # CatalogKinds(company.cls)
            /\ calls[i].exc # "none"
            /\ \E k \in Range(company.kinds) : "price" \in DOMAIN products[company.cls][k]

(***************************************************************************)
(* C4.  load_companies([], []) builds all nine sources, each with the      *)
(* whole built-in catalog of its class.  The code does not do this: an     *)
(* empty subscribe_products is not None, so __init__ keeps the kinds that  *)
(* are in the empty list, which is none.                                   *)
(***************************************************************************)
C4_LoadEmptyListsBuildsFullCatalogs ==
    (/\ lastLoad.reg # "none"
     /\ lastLoad.subscribe_companies = PyList(<<>>)
     /\ lastLoad.subscribe_products = PyList(<<>>))
        => /\ lastLoad.exc = "none"
           /\ KeysOf(companies[lastLoad.reg]) = company_keys
           /\ \A i \in DOMAIN companies[lastLoad.reg] :
                LET company == companies[lastLoad.reg][i]
                IN DOMAIN View(products, company) = CatalogKinds(company.cls)

(***************************************************************************)
(* C5.  For a list of keys, load_companies does not raise; every key of    *)
(* the list that is not one of the nine of company_keys (the empty string  *)
(* and case variants included) is warned about and gets no entry in the    *)
(* registry, and every key of the list that is one of the nine gets its    *)
(* source.  The code does not do this: factory() capitalizes the key, so   *)
(* "OK" finds FuelCompanyOk and is registered, and "" finds the base class *)
(* FuelCompany, whose construction raises AttributeError.                  *)
(***************************************************************************)
C5_UnknownKeysWarnedAndSkipped ==
    (lastLoad.reg # "none" /\ lastLoad.subscribe_companies.val # <<>>)
        => LET ks == lastLoad.subscribe_companies.val
               reg == companies[lastLoad.reg]
           IN /\ lastLoad.exc = "none"
              /\ \A i \in DOMAIN ks :
                    IF ks[i] \in Range(company_keys)
                    THEN \E j \in DOMAIN reg :
                            /\ reg[j].key = ks[i]
                            /\ reg[j].cls = FuelCompany \o Capitalize(ks[i])
                    ELSE /\ ks[i] \in Range(lastLoad.warned)
                         /\ \A j \in DOMAIN reg : reg[j].key # ks[i]

(***************************************************************************)
(* C9.  After a refresh_prices() call that scanned the rows of a page and  *)
(* raised nothing, the price of every product whose display name is the    *)
(* cleaned product cell of some row is the price of the first such row.    *)
(* The code does this where the scan is _get_data_from_table; the loops of *)
(* FuelCompanyOk and FuelCompanyOil keep no found_price, so with them the  *)
(* last such row wins.                                                     *)
(***************************************************************************)
C9_FirstMatchingRowWins ==
    (RefreshEnded /\ calls # <<>> /\ calls[Len(calls)].exc = "none")
        => LET company == companies[cur][Len(calls)]
           IN \A n \in DOMAIN firstRows :
                firstRows[n] # <<>>
                    => /\ "price" \in DOMAIN products[company.cls][company.idx[n]]
                       /\ products[company.cls][company.idx[n]].price
                            = CleanPrice(firstRows[n][1]).price

(***************************************************************************)
(* C10.  A refresh_prices() call of a row-scanning source never raises     *)
(* over the rows of the page it fetched: a row with too few cells and a    *)
(* row whose product cell is empty or blank are skipped.  The code does    *)
(* not do this: it reads cells[product_col] of any row that has a cell,    *)
(* and product_name[-1] of the stripped text, and both raise IndexError.   *)
(***************************************************************************)
C10_RowScanSkipsShortAndBlankRows ==
    \A i \in DOMAIN calls :
        companies[cur][i].cls \in ScanClasses => calls[i].exc # "IndexError"

(***************************************************************************)
(* C11.  As claimed: after a refresh_prices() call of Uno-X that raised    *)
(* nothing, the price of every subscribed product the document has a       *)
(* record for is the PumpPrice of a record of the document with the        *)
(* greatest DateUnixEpoc; and a record whose epoch is lower than the one   *)
(* stored for the product never overwrites the price.  The two parts       *)
(* disagree when every record of the document is older than the stored     *)
(* epoch: the code keeps the price, which is then not one of the document. *)
(***************************************************************************)
\* The records of the document for the display name n, in document order.
RecordsFor(w, n) == SelectSeq(w.matches, LAMBDA m : m.Product = n)

GreatestEpoch(ms) ==
    CHOOSE e \in { ms[i].DateUnixEpoc : i \in DOMAIN ms } :
        \A i \in DOMAIN ms : ms[i].DateUnixEpoc <= e

\* The last record of ms with the greatest epoch.
LatestRecord(ms) ==
    ms[CHOOSE i \in DOMAIN ms :
          /\ ms[i].DateUnixEpoc = GreatestEpoch(ms)
          /\ \A j \in DOMAIN ms : j > i => ms[j].DateUnixEpoc # GreatestEpoch(ms)]

\* The step is a refresh_prices() call of a Uno-X source that raised nothing.
IsUnoxRefresh ==
    /\ IsRefreshCall
    /\ companies[cur][pos].cls = FuelCompanyUnox
    /\ calls'[Len(calls')].exc = "none"

C11_GreatestEpochOfDocumentWins ==
    [][IsUnoxRefresh =>
         \A n \in DOMAIN companies[cur][pos].idx :
            LET k == companies[cur][pos].idx[n]
                ms == RecordsFor(world', n)
            IN /\ ms # <<>> =>
                    /\ "price" \in DOMAIN products'[FuelCompanyUnox][k]
                    /\ \E i \in DOMAIN ms :
                          /\ ms[i].DateUnixEpoc = GreatestEpoch(ms)
                          /\ products'[FuelCompanyUnox][k].price
                                = CleanPrice(ms[i].PumpPrice).price
               /\ ("DateUnixEpoc" \in DOMAIN products[FuelCompanyUnox][k]
                    /\ \A i \in DOMAIN ms :
                          ms[i].DateUnixEpoc < products[FuelCompanyUnox][k].DateUnixEpoc)
                    => products'[FuelCompanyUnox][k] = products[FuelCompanyUnox][k]]_vars

(***************************************************************************)
(* C11, amended.  After a refresh_prices() call of Uno-X that raised       *)
(* nothing: a subscribed product whose records in the document have a      *)
(* greatest epoch that is not lower than the epoch stored for the product  *)
(* before the call (or that has none stored) has the PumpPrice of the last *)
(* record with that greatest epoch, that epoch stored, and the time of the *)
(* call as last_update; every other product record is as it was before.    *)
(* And in every step the stored epoch of a record stays and never          *)
(* decreases.                                                              *)
(***************************************************************************)
C11_GreatestEpochNotOlderThanStoredWins ==
    [][/\ IsUnoxRefresh =>
            \A n \in DOMAIN companies[cur][pos].idx :
               LET k == companies[cur][pos].idx[n]
                   ms == RecordsFor(world', n)
                   before == products[FuelCompanyUnox][k]
                   after == products'[FuelCompanyUnox][k]
               IN IF /\ ms # <<>>
                     /\ \/ "DateUnixEpoc" \notin DOMAIN before
                        \/ before.DateUnixEpoc <= GreatestEpoch(ms)
                  THEN /\ DOMAIN after = DOMAIN before \cup {"price", "last_update", "DateUnixEpoc"}
                       /\ after.price = CleanPrice(LatestRecord(ms).PumpPrice).price
                       /\ after.DateUnixEpoc = GreatestEpoch(ms)
                       /\ after.last_update = now
                  ELSE after = before
       /\ \A k \in CatalogKinds(FuelCompanyUnox) :
            "DateUnixEpoc" \in DOMAIN products[FuelCompanyUnox][k]
                => /\ "DateUnixEpoc" \in DOMAIN products'[FuelCompanyUnox][k]
                   /\ products[FuelCompanyUnox][k].DateUnixEpoc
                        <= products'[FuelCompanyUnox][k].DateUnixEpoc]_vars

\* The second pass read a document with two Diesel records, both older than the
\* epoch the first pass stored: Diesel keeps the epoch and the time of the
\* first pass.
C11_Witness ==
    /\ status = "returned"
    /\ now = 2
    /\ world.fetch = "ok"
    /\ Len(RecordsFor(world, "Diesel")) = 2
    /\ GreatestEpoch(RecordsFor(world, "Diesel")) = 100
    /\ products[FuelCompanyUnox][DIESEL].DateUnixEpoc = 200
    /\ products[FuelCompanyUnox][DIESEL].last_update = 1

(***************************************************************************)
(* C12.  After a refresh_prices() call of Go' on that raised nothing: when *)
(* ssocr was absent, the prices are those of the table scan of columns 0   *)
(* and 7 and the price type is "list"; when ssocr was present, the prices  *)
(* are the OCR outputs and the price type is "pump".  The code does not do *)
(* this: _goon_list_prices sets _price_type to "list" and nothing sets it  *)
(* back, so after a call without ssocr every later call with ssocr leaves  *)
(* OCR prices under the price type "list".                                 *)
(***************************************************************************)
C12_PriceTypeFollowsOcrAvailability ==
    (/\ RefreshEnded
     /\ calls # <<>>
     /\ calls[Len(calls)].exc = "none"
     /\ companies[cur][Len(calls)].cls = FuelCompanyGoon)
        => LET company == companies[cur][Len(calls)]
           IN IF world.ssocr
              THEN /\ company.price_type = "pump"
                   /\ \A k \in Range(company.kinds) :
                        world.ocr[k] # <<>>
                            => /\ "price" \in DOMAIN products[company.cls][k]
                               /\ products[company.cls][k].price
                                    = CleanPrice(Strip(world.ocr[k])).price
              ELSE /\ company.price_type = "list"
                   /\ \A n \in DOMAIN firstRows :
                        firstRows[n] # <<>>
                            => /\ "price" \in DOMAIN products[company.cls][company.idx[n]]
                               /\ products[company.cls][company.idx[n]].price
                                    = CleanPrice(firstRows[n][1]).price

(***************************************************************************)
(* C13.  In every refresh_prices() call of an F24 or Q8 source, the kinds  *)
(* of the source whose record carries a ProductCode get the Index 0, 1,    *)
(* ... in catalog order, the electricity records of the source get no      *)
(* Index, and the records of the kinds the source does not have are left   *)
(* as they were; and when the call raised nothing, the price of each kind  *)
(* with a ProductCode is the entry of the response's Products at the       *)
(* kind's own Index, set at the time of the call.                          *)
(***************************************************************************)
\* The kinds of the source whose built-in record carries a ProductCode.
Coded(company) ==
    SelectSeq(company.kinds, LAMBDA k : "ProductCode" \in DOMAIN CatalogRecord(company.cls, k))

\* The step is a refresh_prices() call of an F24 or Q8 source.
IsF24Refresh ==
    /\ IsRefreshCall
    /\ companies[cur][pos].cls \in {FuelCompanyF24, FuelCompanyQ8}

C13_PricesReadByOwnIndex ==
    [][IsF24Refresh =>
         LET company == companies[cur][pos]
             after == products'[company.cls]
         IN /\ \A i \in DOMAIN Coded(company) : after[Coded(company)[i]].Index = i - 1
            /\ \A k \in Range(company.kinds) \ Range(Coded(company)) :
                    "Index" \notin DOMAIN after[k]
            /\ \A k \in CatalogKinds(company.cls) \ Range(company.kinds) :
                    after[k] = products[company.cls][k]
            /\ calls'[Len(calls')].exc = "none"
                    => \A i \in DOMAIN Coded(company) :
                          /\ i \in DOMAIN world'.Products
                          /\ after[Coded(company)[i]].price
                                = CleanPrice(world'.Products[i]).price
                          /\ after[Coded(company)[i]].last_update = now]_vars

\* A source filtered to oktan 95+, diesel+ and the chargers has been refreshed
\* from a response of four prices: diesel+, fourth in the catalog, has Index 1
\* and the second price of the response.
C13_Witness ==
    /\ status = "returned"
    /\ calls[1].exc = "none"
    /\ Coded(companies[cur][1]) = <<OCTANE_95_PLUS, DIESEL_PLUS>>
    /\ world.Products = FuelPriceList
    /\ products[companies[cur][1].cls][DIESEL_PLUS].Index = 1
    /\ products[companies[cur][1].cls][DIESEL_PLUS].price = CleanPrice(FuelPriceList[2]).price
    /\ "Index" \notin DOMAIN products[companies[cur][1].cls][CHARGE]

(***************************************************************************)
(* C14.  As claimed: in a refresh_prices() call of an F24 or Q8 source     *)
(* whose fuel step raised nothing, the electricity page is not fetched     *)
(* when neither charger is subscribed; and when the fourth row has one     *)
(* price cell per subscribed charger, the call raises nothing, with both   *)
(* subscribed the first cell is the quick-charge price and the second the  *)
(* fast-charge price, and with one subscribed the one cell is its price.   *)
(* The code chooses by the number of cells: with quick-charge alone and    *)
(* one cell, no price is set.                                              *)
(***************************************************************************)
\* The cells after the first of the fourth row of the electricity page.
Trailing(w) ==
    IF Len(w.page.rows) < 4 THEN <<>>
    ELSE IF w.page.rows[4] = <<>> THEN <<>>
    ELSE Tail(w.page.rows[4])

\* refresh_fuel_prices raises nothing on this response.
FuelStepOk(company, w) ==
    /\ w.post = "ok"
    /\ Coded(company) # <<>> => w.json_ok /\ Len(Coded(company)) <= Len(w.Products)
    /\ \A i \in DOMAIN Coded(company) :
          i \in DOMAIN w.Products => CleanPrice(w.Products[i]).exc = "none"

\* The electricity page was fetched and has a fourth row.
ElectricRowRead(w) == w.get = "ok" /\ ~w.page.empty /\ Len(w.page.rows) >= 4

\* The record has the price of the cell, set at time clock.
HasPriceOf(record, cell, clock) ==
    /\ {"price", "last_update"} \subseteq DOMAIN record
    /\ record.price = CleanPrice(cell).price
    /\ record.last_update = clock

\* Only F24 and Q8 have charger records; F24 has no quick-charge one.
ChargerRecord(prods, company, k) ==
    IF k \in DOMAIN prods[company.cls] THEN prods[company.cls][k] ELSE <<>>

C14_CellsChosenBySubscription ==
    [][(IsF24Refresh /\ FuelStepOk(companies[cur][pos], world')) =>
         LET company == companies[cur][pos]
             quick == Subscribed(company, QUICKCHARGE)
             charge == Subscribed(company, CHARGE)
             t == Trailing(world')
             exc == calls'[Len(calls')].exc
         IN /\ (~quick /\ ~charge) => exc = "none"
            /\ (ElectricRowRead(world') /\ quick /\ charge /\ Len(t) = 2)
                 => /\ exc = "none"
                    /\ HasPriceOf(ChargerRecord(products', company, QUICKCHARGE), t[1], now)
                    /\ HasPriceOf(ChargerRecord(products', company, CHARGE), t[2], now)
            /\ (ElectricRowRead(world') /\ quick /\ ~charge /\ Len(t) = 1)
                 => /\ exc = "none"
                    /\ HasPriceOf(ChargerRecord(products', company, QUICKCHARGE), t[1], now)
            /\ (ElectricRowRead(world') /\ ~quick /\ charge /\ Len(t) = 1)
                 => /\ exc = "none"
                    /\ HasPriceOf(ChargerRecord(products', company, CHARGE), t[1], now)]_vars

(***************************************************************************)
(* C14, amended.  In a refresh_prices() call of an F24 or Q8 source whose  *)
(* fuel step raised nothing: when neither charger is subscribed the        *)
(* electricity page is not fetched (the call raises nothing whatever the   *)
(* page) and no charger record changes; otherwise, when the page has a     *)
(* fourth row, the cells used are chosen by their number: quick-charge, if *)
(* subscribed, gets the first of exactly two price cells and nothing       *)
(* otherwise; fast-charge, if subscribed, gets the second of exactly two   *)
(* price cells, else the first, and the call raises IndexError when there  *)
(* is none.                                                                *)
(***************************************************************************)
C14_CellsChosenByRowLength ==
    [][(IsF24Refresh /\ FuelStepOk(companies[cur][pos], world')) =>
         LET company == companies[cur][pos]
             quick == Subscribed(company, QUICKCHARGE)
             charge == Subscribed(company, CHARGE)
             t == Trailing(world')
             exc == calls'[Len(calls')].exc
         IN /\ (~quick /\ ~charge)
                 => /\ exc = "none"
                    /\ \A k \in {QUICKCHARGE, CHARGE} :
                          ChargerRecord(products', company, k) = ChargerRecord(products, company, k)
            /\ ((quick \/ charge) /\ ElectricRowRead(world'))
                 => /\ exc = IF charge /\ t = <<>> THEN "IndexError" ELSE "none"
                    /\ quick =>
                          IF Len(t) = 2
                          THEN HasPriceOf(ChargerRecord(products', company, QUICKCHARGE), t[1], now)
                          ELSE ChargerRecord(products', company, QUICKCHARGE)
                                 = ChargerRecord(products, company, QUICKCHARGE)
                    /\ (charge /\ t # <<>>) =>
                          HasPriceOf(ChargerRecord(products', company, CHARGE),
                                     IF Len(t) = 2 THEN t[2] ELSE t[1], now)]_vars

\* A Q8 source with quick-charge subscribed and fast-charge not has been
\* refreshed from a page with one price cell: the call raised nothing and
\* quick-charge has no price.
C14_Witness ==
    /\ status = "returned"
    /\ calls[1].exc = "none"
    /\ companies[cur][1].cls = FuelCompanyQ8
    /\ Subscribed(companies[cur][1], QUICKCHARGE)
    /\ ~Subscribed(companies[cur][1], CHARGE)
    /\ ElectricRowRead(world)
    /\ Len(Trailing(world)) = 1
    /\ "price" \notin DOMAIN products[FuelCompanyQ8][QUICKCHARGE]

(***************************************************************************)
(* C15.  In every state, every product record of every class has a price   *)
(* if and only if it has a last_update: _set_price sets both or neither,   *)
(* also in a refresh_prices() call that fails part-way.                    *)
(***************************************************************************)
C15_PriceIffLastUpdate ==
    \A cls \in Classes : \A k \in CatalogKinds(cls) :
        "price" \in DOMAIN products[cls][k] <=> "last_update" \in DOMAIN products[cls][k]

\* A refresh_prices() call has failed after it set a price: over a price that
\* is no number, or a response shorter than the Index asks for.
C15_Witness ==
    /\ status = "raised"
    /\ calls[Len(calls)].exc \in {"ValueError", "IndexError"}
    /\ \E k \in Range(companies[cur][Len(calls)].kinds) :
         LET record == products[companies[cur][Len(calls)].cls][k]
         IN /\ "price" \in DOMAIN record
            /\ record.last_update = now
    /\ \E k \in Range(companies[cur][Len(calls)].kinds) :
         "price" \notin DOMAIN products[companies[cur][Len(calls)].cls][k]

====
